---- MODULE Spec2Model ----
(***************************************************************************)
(* Model of the session/chat store (store/sessionStore.ts, zustand) and of *)
(* the streaming client runTaskWithSSE (services/api.ts).                  *)
(*                                                                         *)
(* JavaScript runs the store single-threaded: every synchronous stretch of *)
(* a handler between two awaits is one atomic action here, and every await *)
(* is a point where any other action may be interleaved.  A pending await  *)
(* is kept in the state together with the values the closure captured      *)
(* before it (stops, loads, creates, deletes, acks, and the connection     *)
(* records in conn).                                                       *)
(***************************************************************************)
EXTENDS Integers, Sequences, FiniteSets, TLC

\* ------------------------------------------------------------------ bounds
MaxFrames == 2      \* frames the server sends in one run of the model
MaxCalls == 3       \* calls of store operations made by the user interface

\* --------------------------------------------------------- program values
DefaultAgent == "glm"                      \* 'glm' default of the store
AgentTypes == {"glm", "gelab"}
TextCompleted == "task completed"          \* '任务完成'
TextStoppedDefault == "task stopped"       \* '任务已停止'
TextCancelled == "task cancelled"          \* '任务已取消'
TextConnectionError == "connection error, retry"   \* '连接错误，请重试'
TextSendFailed == "send failed, retry"     \* '发送失败，请重试'
ErrorPrefix == "error: "                   \* '错误: '
WarnAlreadyProcessing == "Already processing a task"
WarnNoActiveSession == "No active session"
WarnNotProcessing == "No task is currently processing"

Absent == "<undefined>"     \* an optional text field that is not present
NoDuration == -1            \* an optional duration that is not present
NoAction == "<undefined>"   \* an optional action record that is not present
NoController == 0           \* sseController = null
NoSession == [id |-> 0, agent_type |-> Absent]      \* currentSession = null
NoScreenshot == [base64 |-> "null", width |-> 0, height |-> 0]
NoTakeover == [isActive |-> FALSE, message |-> Absent]

\* every accepted sendTask makes one runTaskWithSSE call, and every resolved
\* createSession one session besides the one the server starts with
ConnIds == 1..MaxCalls
SessionIds == 1..(MaxCalls + 1)
Tasks == {"t1"}

VARIABLES
    sessions,           \* store: Session[] (newest first)
    currentSession,     \* store: Session | null
    isCreatingSession,  \* store
    selectedAgentType,  \* store
    messages,           \* store: Message[]
    isProcessing,       \* store
    screenshot,         \* store
    takeover,           \* store: TakeoverState
    sseController,      \* store: AbortController | null, by connection id
    conn,               \* every runTaskWithSSE call made so far
    stops,              \* stopTask calls awaiting agentApi.stopTask
    loads,              \* selectSession calls awaiting getConversations
    creates,            \* createSession calls awaiting sessionsApi.create
    deletes,            \* closeSession calls awaiting sessionsApi.delete
    acks,               \* completeTakeover calls awaiting the server
    server,             \* the sessions the server holds, and how many it issued
    calls,              \* store operations called so far
    storedRows,         \* the conversation rows the server holds for session 1
    reader,             \* the body of connection 1 read as text: what is left
                        \* of it, the parser's buffer, the events dispatched
    console             \* what the last step wrote with console.warn/error
                        \* on a rejected call ("" when it wrote nothing)

storeVars == <<sessions, currentSession, isCreatingSession, selectedAgentType,
               messages, isProcessing, screenshot, takeover, sseController>>
envVars == <<conn, stops, loads, creates, deletes, acks, server>>
\* what the collaborators hold and no code of the client writes
inputVars == <<storedRows>>
\* a call of a store operation by the user interface
Call == calls < MaxCalls /\ calls' = calls + 1 /\ UNCHANGED <<inputVars, reader>>
vars == <<sessions, currentSession, isCreatingSession, selectedAgentType,
          messages, isProcessing, screenshot, takeover, sseController,
          conn, stops, loads, creates, deletes, acks, server, calls, console,
          storedRows, reader>>

\* -------------------------------------------------------------- helpers
Last(s) == s[Len(s)]

\* { ...m, ...updates }
Merge(m, updates) ==
    [f \in DOMAIN m |-> IF f \in DOMAIN updates THEN updates[f] ELSE m[f]]

\* updateLastMessage as a function of the message list
updateLastMessage(msgs, updates) ==
    IF Len(msgs) = 0 THEN msgs
    ELSE [msgs EXCEPT ![Len(msgs)] = Merge(msgs[Len(msgs)], updates)]

\* a || b for optional texts: undefined and '' are falsy
OrElse(a, b) == IF a = Absent \/ a = "" THEN b ELSE a

\* ------------------------------------------------------------ event frames
\* The payloads (SSEEventData) the model lets the server send on the
\* task-lifecycle specification.
ThinkingFrames ==
    {[kind |-> "thinking", full |-> "p1", chunk |-> Absent, duration |-> NoDuration]}
ActionFrames == {[kind |-> "action", action |-> "tap", duration |-> 1]}
ScreenshotFrames == {[kind |-> "screenshot", base64 |-> "img1", width |-> 1, height |-> 2]}
TakeoverFrames == {[kind |-> "takeover", message |-> "please login"]}
CompletedFrames == {[kind |-> "completed", message |-> Absent],
                    [kind |-> "completed", message |-> "done"]}
ErrorFrames == {[kind |-> "error", message |-> "boom"]}
StoppedFrames == {[kind |-> "stopped", message |-> "cancelled"]}
ReadyFrames == {[kind |-> "ready"]}
TerminalKinds == {"completed", "error", "stopped"}
Frames == ThinkingFrames \cup ActionFrames \cup ScreenshotFrames \cup TakeoverFrames
          \cup CompletedFrames \cup ErrorFrames \cup StoppedFrames \cup ReadyFrames

\* steps of the last message: lastMessage?.steps || []
LastSteps(msgs) == IF Len(msgs) = 0 THEN <<>> ELSE Last(msgs).steps

\* an onThinking that opens a new step for every frame
onThinking_AlwaysAppends(msgs, data) ==
    LET steps == LastSteps(msgs)
        thinkingContent == OrElse(data.full, OrElse(data.chunk, ""))
    IN  updateLastMessage(msgs, [steps |-> Append(steps,
                 [id |-> <<"step", 0>>,
                  stepNumber |-> Len(steps) + 1,
                  thinking |-> thinkingContent,
                  thinkingDuration |-> data.duration,
                  action |-> NoAction,
                  actionDuration |-> NoDuration,
                  status |-> "thinking"])])

\* an onThinking that numbers a new step by the length before the append
onThinking_NumbersFromZero(msgs, data) ==
    LET steps == LastSteps(msgs)
        thinkingContent == OrElse(data.full, OrElse(data.chunk, ""))
    IN  IF Len(steps) = 0 \/ Last(steps).status = "completed"
        THEN updateLastMessage(msgs, [steps |-> Append(steps,
                 [id |-> <<"step", 0>>,
                  stepNumber |-> Len(steps),
                  thinking |-> thinkingContent,
                  thinkingDuration |-> data.duration,
                  action |-> NoAction,
                  actionDuration |-> NoDuration,
                  status |-> "thinking"])])
        ELSE updateLastMessage(msgs, [steps |-> [steps EXCEPT ![Len(steps)] =
                 Merge(Last(steps), [thinking |-> thinkingContent,
                                     thinkingDuration |-> data.duration,
                                     status |-> "thinking"])]])

\* onThinking, as a function of the message list
onThinking(msgs, data) ==
    LET steps == LastSteps(msgs)
        thinkingContent == OrElse(data.full, OrElse(data.chunk, ""))
    IN  IF Len(steps) = 0 \/ Last(steps).status = "completed"
        THEN updateLastMessage(msgs, [steps |-> Append(steps,
                 [id |-> <<"step", 0>>,
                  stepNumber |-> Len(steps) + 1,
                  thinking |-> thinkingContent,
                  thinkingDuration |-> data.duration,
                  action |-> NoAction,
                  actionDuration |-> NoDuration,
                  status |-> "thinking"])])
        ELSE updateLastMessage(msgs, [steps |-> [steps EXCEPT ![Len(steps)] =
                 Merge(Last(steps), [thinking |-> thinkingContent,
                                     thinkingDuration |-> data.duration,
                                     status |-> "thinking"])]])

\* an onAction that opens a step of its own when the message has none
onAction_OpensStep(msgs, data) ==
    LET steps == LastSteps(msgs)
    IN  IF Len(steps) > 0
        THEN updateLastMessage(msgs,
                 [steps |-> [steps EXCEPT ![Len(steps)] =
                                Merge(Last(steps), [action |-> data.action,
                                                    actionDuration |-> data.duration,
                                                    status |-> "completed"])],
                  action |-> data.action])
        ELSE updateLastMessage(msgs,
                 [steps |-> << [id |-> <<"step", 0>>,
                                stepNumber |-> 1,
                                thinking |-> "",
                                thinkingDuration |-> NoDuration,
                                action |-> data.action,
                                actionDuration |-> data.duration,
                                status |-> "completed"] >>,
                  action |-> data.action])

\* an onAction that records the action but leaves the step's status
onAction_KeepsStatus(msgs, data) ==
    LET steps == LastSteps(msgs)
    IN  IF Len(steps) > 0
        THEN updateLastMessage(msgs,
                 [steps |-> [steps EXCEPT ![Len(steps)] =
                                Merge(Last(steps), [action |-> data.action,
                                                    actionDuration |-> data.duration])],
                  action |-> data.action])
        ELSE msgs

\* onAction, as a function of the message list
onAction(msgs, data) ==
    LET steps == LastSteps(msgs)
    IN  IF Len(steps) > 0
        THEN updateLastMessage(msgs,
                 [steps |-> [steps EXCEPT ![Len(steps)] =
                                Merge(Last(steps), [action |-> data.action,
                                                    actionDuration |-> data.duration,
                                                    status |-> "completed"])],
                  action |-> data.action])
        ELSE msgs

\* the handlers of sendTask, applied to the store
HandleReady == UNCHANGED storeVars

HandleThinking(data) ==
    /\ messages' = onThinking(messages, data)
    /\ UNCHANGED <<sessions, currentSession, isCreatingSession, selectedAgentType,
                   isProcessing, screenshot, takeover, sseController>>

HandleAction(data) ==
    /\ messages' = onAction(messages, data)
    /\ UNCHANGED <<sessions, currentSession, isCreatingSession, selectedAgentType,
                   isProcessing, screenshot, takeover, sseController>>

HandleScreenshot(data) ==
    /\ screenshot' = [base64 |-> data.base64, width |-> data.width, height |-> data.height]
    /\ UNCHANGED <<sessions, currentSession, isCreatingSession, selectedAgentType,
                   messages, isProcessing, takeover, sseController>>

\* an onTakeover that also pauses the task
HandleTakeover_PausesTask(data) ==
    /\ takeover' = [isActive |-> TRUE, message |-> data.message]
    /\ isProcessing' = FALSE
    /\ UNCHANGED <<sessions, currentSession, isCreatingSession, selectedAgentType,
                   messages, screenshot, sseController>>

HandleTakeover(data) ==
    /\ takeover' = [isActive |-> TRUE, message |-> data.message]
    /\ UNCHANGED <<sessions, currentSession, isCreatingSession, selectedAgentType,
                   messages, isProcessing, screenshot, sseController>>

\* an onCompleted that also dismisses the takeover
HandleCompleted_ClearsTakeover(data) ==
    /\ messages' = updateLastMessage(messages,
           [content |-> OrElse(data.message, TextCompleted), isStreaming |-> FALSE])
    /\ isProcessing' = FALSE
    /\ sseController' = NoController
    /\ takeover' = NoTakeover
    /\ UNCHANGED <<sessions, currentSession, isCreatingSession, selectedAgentType,
                   screenshot>>

HandleCompleted(data) ==
    /\ messages' = updateLastMessage(messages,
           [content |-> OrElse(data.message, TextCompleted), isStreaming |-> FALSE])
    /\ isProcessing' = FALSE
    /\ sseController' = NoController
    /\ UNCHANGED <<sessions, currentSession, isCreatingSession, selectedAgentType,
                   screenshot, takeover>>

HandleError(data) ==
    /\ messages' = IF Len(messages) > 0 /\ Last(messages).isStreaming
                   THEN updateLastMessage(messages,
                            [content |-> ErrorPrefix \o data.message, isStreaming |-> FALSE])
                   ELSE messages
    /\ isProcessing' = FALSE
    /\ sseController' = NoController
    /\ UNCHANGED <<sessions, currentSession, isCreatingSession, selectedAgentType,
                   screenshot, takeover>>

\* an onStopped that also completes the step that was still open
HandleStopped_ClosesOpenStep(data) ==
    /\ messages' = updateLastMessage(messages,
           [content |-> OrElse(data.message, TextStoppedDefault), isStreaming |-> FALSE,
            steps |-> [i \in 1..Len(LastSteps(messages)) |->
                          Merge(LastSteps(messages)[i], [status |-> "completed"])]])
    /\ isProcessing' = FALSE
    /\ sseController' = NoController
    /\ UNCHANGED <<sessions, currentSession, isCreatingSession, selectedAgentType,
                   screenshot, takeover>>

HandleStopped(data) ==
    /\ messages' = updateLastMessage(messages,
           [content |-> OrElse(data.message, TextStoppedDefault), isStreaming |-> FALSE])
    /\ isProcessing' = FALSE
    /\ sseController' = NoController
    /\ UNCHANGED <<sessions, currentSession, isCreatingSession, selectedAgentType,
                   screenshot, takeover>>

\* an onConnectionError that closes the message but leaves isProcessing
HandleConnectionError_KeepsProcessing ==
    /\ messages' = IF Len(messages) > 0 /\ Last(messages).isStreaming
                   THEN updateLastMessage(messages,
                            [content |-> TextConnectionError, isStreaming |-> FALSE])
                   ELSE messages
    /\ sseController' = NoController
    /\ UNCHANGED <<sessions, currentSession, isCreatingSession, selectedAgentType,
                   isProcessing, screenshot, takeover>>

HandleConnectionError ==
    /\ messages' = IF Len(messages) > 0 /\ Last(messages).isStreaming
                   THEN updateLastMessage(messages,
                            [content |-> TextConnectionError, isStreaming |-> FALSE])
                   ELSE messages
    /\ isProcessing' = FALSE
    /\ sseController' = NoController
    /\ UNCHANGED <<sessions, currentSession, isCreatingSession, selectedAgentType,
                   screenshot, takeover>>

\* the switch of runTaskWithSSE
Dispatch(f) ==
    CASE f.kind = "ready" -> HandleReady
      [] f.kind = "thinking" -> HandleThinking(f)
      [] f.kind = "action" -> HandleAction(f)
      [] f.kind = "screenshot" -> HandleScreenshot(f)
      [] f.kind = "takeover" -> HandleTakeover(f)
      [] f.kind = "completed" -> HandleCompleted(f)
      [] f.kind = "error" -> HandleError(f)
      [] f.kind = "stopped" -> HandleStopped(f)

\* ------------------------------------------------------------ connections
\* st: "unused"  no runTaskWithSSE call yet
\*     "pending" runTaskWithSSE is awaiting getAuthHeaders, no request sent
\*     "open"    the fetch is in flight or its body is being read
\*     "aborted" abortController.abort() was called on it while open
\*     "refused" the response came with a non-OK status and its error body
\*               is being read; abort() no longer stops the ApiError
\*     "ended"   reader.read() returned done
\*     "failed"  the fetch or a read rejected, onConnectionError was called
\* session, agentType: the arguments of the call; nframes: frames dispatched;
\* term: a completed, error or stopped frame has been dispatched on it.
UnusedConn == [st |-> "unused", session |-> 0, agentType |-> Absent,
               nframes |-> 0, term |-> FALSE]

Live(c) == conn[c].st = "open"

RECURSIVE FramesUpTo(_)
FramesUpTo(c) == IF c = 0 THEN 0 ELSE conn[c].nframes + FramesUpTo(c - 1)
\* frames dispatched so far, on all connections
TotalFrames == FramesUpTo(MaxCalls)

\* AbortController.abort(): a no-op unless the request is still live
abort(cs, c) ==
    IF c # NoController /\ cs[c].st = "open"
    THEN [cs EXCEPT ![c].st = "aborted"]
    ELSE cs

\* ------------------------------------------------- stored conversations
\* A stored row: id, role, content, thinking (Absent when null) and action:
\*   [isNull |-> TRUE, ...]                       action is null
\*   [isNull |-> FALSE, hasSteps |-> TRUE, ...]   action.steps is an array
\*   [isNull |-> FALSE, hasSteps |-> FALSE, ...]  a single action record
\* A stored step has stepNumber NoStepNumber and status Absent when the
\* field is missing; 0 and "" are stored values like any other.
NoStepNumber == -1
NullAction == [isNull |-> TRUE, hasSteps |-> FALSE, steps |-> <<>>, value |-> NoAction]
PlainAction(v) == [isNull |-> FALSE, hasSteps |-> FALSE, steps |-> <<>>, value |-> v]
StepsAction(ss) == [isNull |-> FALSE, hasSteps |-> TRUE, steps |-> ss, value |-> NoAction]

\* the rows session 1 holds when the client starts
SeedRows ==
    << [id |-> 11, role |-> "user", content |-> "old task",
        thinking |-> Absent, action |-> NullAction],
       [id |-> 12, role |-> "assistant", content |-> "old answer",
        thinking |-> Absent,
        action |-> StepsAction(<< [stepNumber |-> NoStepNumber, thinking |-> "h1",
                                  action |-> "tap", status |-> Absent] >>)] >>

\* the rows the persistence collaborator returns for a session
Conversations(sid) == IF sid = 1 THEN storedRows ELSE <<>>

\* selectSession, the conversion of one row (conversations.map callback)
ConvToMessage(conv) ==
    LET base == [id |-> <<"conv", conv.id>>, role |-> conv.role,
                 content |-> conv.content, steps |-> <<>>,
                 isStreaming |-> FALSE, action |-> NoAction]
    IN  IF conv.role # "assistant" THEN base
        ELSE IF ~conv.action.isNull /\ conv.action.hasSteps
        THEN [base EXCEPT !.steps =
                 [i \in 1..Len(conv.action.steps) |->
                    LET step == conv.action.steps[i]
                    IN  [id |-> <<"conv-step", conv.id * 10 + i>>,
                         stepNumber |-> IF step.stepNumber \in {NoStepNumber, 0}
                                        THEN i ELSE step.stepNumber,
                         thinking |-> step.thinking,
                         thinkingDuration |-> NoDuration,
                         action |-> step.action,
                         actionDuration |-> NoDuration,
                         status |-> OrElse(step.status, "completed")]]]
        ELSE IF (conv.thinking # Absent /\ conv.thinking # "") \/ ~conv.action.isNull
        THEN [base EXCEPT !.steps =
                 << [id |-> <<"conv-step", conv.id * 10 + 1>>,
                     stepNumber |-> 1,
                     thinking |-> conv.thinking,
                     thinkingDuration |-> NoDuration,
                     action |-> conv.action.value,
                     actionDuration |-> NoDuration,
                     status |-> "completed"] >>]
        ELSE base

ConvToMessages(convs) == [i \in 1..Len(convs) |-> ConvToMessage(convs[i])]

\* --------------------------------------------------------------- pending
\* A bag of pending calls is a function from the captured value to a count.
BagAdd(b, x) == [b EXCEPT ![x] = @ + 1]
BagRemove(b, x) == [b EXCEPT ![x] = @ - 1]
RECURSIVE SumOver(_, _)
SumOver(b, S) == IF S = {} THEN 0
                 ELSE LET x == CHOOSE y \in S : TRUE
                      IN  b[x] + SumOver(b, S \ {x})
BagSize(b) == SumOver(b, DOMAIN b)

Controllers == {NoController} \cup ConnIds

\* the reader of a body that is not looked at as text
NoReader == [pieces |-> <<>>, rest |-> <<>>, buffer |-> <<>>, log |-> <<>>, cuts |-> 0]

\* ------------------------------------------------------------------ Init
Init ==
    /\ sessions = <<>>
    /\ currentSession = NoSession
    /\ isCreatingSession = FALSE
    /\ selectedAgentType = DefaultAgent
    /\ messages = <<>>
    /\ isProcessing = FALSE
    /\ screenshot = NoScreenshot
    /\ takeover = NoTakeover
    /\ sseController = NoController
    /\ conn = [c \in ConnIds |-> UnusedConn]
    /\ stops = [k \in Controllers |-> 0]
    /\ loads = [sid \in SessionIds |-> 0]
    /\ creates = [a \in AgentTypes |-> 0]
    /\ deletes = [sid \in SessionIds |-> 0]
    /\ acks = 0
    /\ server = [live |-> {[id |-> 1, agent_type |-> "gelab"]}, issued |-> 1]
    /\ calls = 0
    /\ console = ""
    /\ storedRows = SeedRows
    /\ reader = NoReader

\* ------------------------------------------------------------- sendTask
\* sendTask without its isProcessing check
sendTask_NoBusyCheck(task) ==
    /\ Call
    /\ IF currentSession = NoSession
       THEN /\ console' = WarnNoActiveSession
            /\ UNCHANGED <<storeVars, envVars>>
       ELSE /\ \E c \in ConnIds :
                 /\ conn[c].st = "unused"
                 /\ \A d \in ConnIds : d < c => conn[d].st # "unused"
                 /\ messages' = messages \o
                        << [id |-> <<"user", c>>, role |-> "user", content |-> task,
                            steps |-> <<>>, isStreaming |-> FALSE, action |-> NoAction],
                           [id |-> <<"assistant", c>>, role |-> "assistant", content |-> "",
                            steps |-> <<>>, isStreaming |-> TRUE, action |-> NoAction] >>
                 /\ conn' = [conn EXCEPT ![c] = [st |-> "pending",
                                                 session |-> currentSession.id,
                                                 agentType |-> selectedAgentType,
                                                 nframes |-> 0, term |-> FALSE]]
            /\ isProcessing' = TRUE
            /\ console' = ""
            /\ UNCHANGED <<sessions, currentSession, isCreatingSession, selectedAgentType,
                           screenshot, takeover, sseController,
                           stops, loads, creates, deletes, acks, server>>

\* sendTask that appends the placeholder without the user message
sendTask_NoUserMessage(task) ==
    /\ Call
    /\ IF isProcessing
       THEN /\ console' = WarnAlreadyProcessing
            /\ UNCHANGED <<storeVars, envVars>>
       ELSE IF currentSession = NoSession
       THEN /\ console' = WarnNoActiveSession
            /\ UNCHANGED <<storeVars, envVars>>
       ELSE /\ \E c \in ConnIds :
                 /\ conn[c].st = "unused"
                 /\ \A d \in ConnIds : d < c => conn[d].st # "unused"
                 /\ messages' = messages \o
                        << [id |-> <<"assistant", c>>, role |-> "assistant", content |-> "",
                            steps |-> <<>>, isStreaming |-> TRUE, action |-> NoAction] >>
                 /\ conn' = [conn EXCEPT ![c] = [st |-> "pending",
                                                 session |-> currentSession.id,
                                                 agentType |-> selectedAgentType,
                                                 nframes |-> 0, term |-> FALSE]]
            /\ isProcessing' = TRUE
            /\ console' = ""
            /\ UNCHANGED <<sessions, currentSession, isCreatingSession, selectedAgentType,
                           screenshot, takeover, sseController,
                           stops, loads, creates, deletes, acks, server>>

\* sendTask up to its await of runTaskWithSSE (which itself awaits
\* getAuthHeaders before it sends anything)
sendTask(task) ==
    /\ Call
    /\ IF isProcessing
       THEN /\ console' = WarnAlreadyProcessing
            /\ UNCHANGED <<storeVars, envVars>>
       ELSE IF currentSession = NoSession
       THEN /\ console' = WarnNoActiveSession
            /\ UNCHANGED <<storeVars, envVars>>
       ELSE /\ \E c \in ConnIds :
                 /\ conn[c].st = "unused"
                 /\ \A d \in ConnIds : d < c => conn[d].st # "unused"
                 /\ messages' = messages \o
                        << [id |-> <<"user", c>>, role |-> "user", content |-> task,
                            steps |-> <<>>, isStreaming |-> FALSE, action |-> NoAction],
                           [id |-> <<"assistant", c>>, role |-> "assistant", content |-> "",
                            steps |-> <<>>, isStreaming |-> TRUE, action |-> NoAction] >>
                 /\ conn' = [conn EXCEPT ![c] = [st |-> "pending",
                                                 session |-> currentSession.id,
                                                 agentType |-> selectedAgentType,
                                                 nframes |-> 0, term |-> FALSE]]
            /\ isProcessing' = TRUE
            /\ console' = ""
            /\ UNCHANGED <<sessions, currentSession, isCreatingSession, selectedAgentType,
                           screenshot, takeover, sseController,
                           stops, loads, creates, deletes, acks, server>>

\* runTaskWithSSE got its headers, issued the fetch and returned the
\* controller; sendTask resumes and stores it (no other code can run between)
sendTaskOpened(c) ==
    /\ conn[c].st = "pending"
    /\ conn' = [conn EXCEPT ![c].st = "open"]
    /\ sseController' = c
    /\ UNCHANGED <<calls, inputVars, reader>>
    /\ console' = ""
    /\ UNCHANGED <<sessions, currentSession, isCreatingSession, selectedAgentType,
                   messages, isProcessing, screenshot, takeover,
                   stops, loads, creates, deletes, acks, server>>

\* a catch of sendTask that resets the flag and leaves the placeholder open
sendTaskFailed_KeepsStreaming(c) ==
    /\ conn[c].st = "pending"
    /\ conn' = [conn EXCEPT ![c].st = "rejected"]
    /\ isProcessing' = FALSE
    /\ UNCHANGED <<calls, inputVars, reader>>
    /\ console' = "Failed to send task"
    /\ UNCHANGED <<sessions, currentSession, isCreatingSession, selectedAgentType,
                   messages, screenshot, takeover, sseController,
                   stops, loads, creates, deletes, acks, server>>

\* runTaskWithSSE rejected (getAuthHeaders threw): the catch of sendTask
sendTaskFailed(c) ==
    /\ conn[c].st = "pending"
    /\ conn' = [conn EXCEPT ![c].st = "rejected"]
    /\ isProcessing' = FALSE
    /\ messages' = updateLastMessage(messages,
           [content |-> TextSendFailed, isStreaming |-> FALSE])
    /\ UNCHANGED <<calls, inputVars, reader>>
    /\ console' = "Failed to send task"
    /\ UNCHANGED <<sessions, currentSession, isCreatingSession, selectedAgentType,
                   screenshot, takeover, sseController,
                   stops, loads, creates, deletes, acks, server>>

\* -------------------------------------------------------- runTaskWithSSE
\* one well-formed frame read from the body and dispatched to its handler
DeliverFrame(c, f) ==
    /\ Live(c)
    /\ TotalFrames < MaxFrames
    /\ Dispatch(f)
    /\ conn' = [conn EXCEPT ![c].nframes = @ + 1,
                            ![c].term = @ \/ f.kind \in TerminalKinds]
    /\ UNCHANGED <<calls, inputVars, reader>>
    /\ console' = IF f.kind = "error" THEN "SSE error" ELSE ""
    /\ UNCHANGED <<stops, loads, creates, deletes, acks, server>>

\* reader.read() returns done: the loop is left, no handler is called
RemoteClose(c) ==
    /\ Live(c)
    /\ conn' = [conn EXCEPT ![c].st = "ended"]
    /\ UNCHANGED <<calls, inputVars, reader>>
    /\ console' = ""
    /\ UNCHANGED <<storeVars, stops, loads, creates, deletes, acks, server>>

\* the response arrives with a non-OK status: runTaskWithSSE awaits
\* response.json() (whose own rejection is swallowed) before it throws
ResponseNotOk(c) ==
    /\ Live(c)
    /\ conn[c].nframes = 0
    /\ conn' = [conn EXCEPT ![c].st = "refused"]
    /\ UNCHANGED <<calls, inputVars, reader>>
    /\ console' = ""
    /\ UNCHANGED <<storeVars, stops, loads, creates, deletes, acks, server>>

\* a catch of runTaskWithSSE without its AbortError test
ConnectionFailure_NoAbortTest(c) ==
    /\ conn[c].st \in {"open", "refused", "aborted"}
    /\ conn' = [conn EXCEPT ![c].st = "failed"]
    /\ HandleConnectionError
    /\ UNCHANGED <<calls, inputVars, reader>>
    /\ console' = "SSE connection error"
    /\ UNCHANGED <<stops, loads, creates, deletes, acks, server>>

\* the fetch or a read rejects with something else than an AbortError, the
\* ApiError of a non-OK response is thrown, or the response has no body:
\* the catch calls onConnectionError
ConnectionFailure(c) ==
    /\ Live(c) \/ conn[c].st = "refused"
    /\ conn' = [conn EXCEPT ![c].st = "failed"]
    /\ HandleConnectionError
    /\ UNCHANGED <<calls, inputVars, reader>>
    /\ console' = "SSE connection error"
    /\ UNCHANGED <<stops, loads, creates, deletes, acks, server>>

\* -------------------------------------------------------------- stopTask
\* a stopTask without its isProcessing test
stopTask_NoRunningTest ==
    /\ Call
    /\ IF currentSession = NoSession
       THEN /\ console' = WarnNoActiveSession
            /\ UNCHANGED <<storeVars, envVars>>
       ELSE /\ stops' = BagAdd(stops, sseController)
            /\ console' = ""
            /\ UNCHANGED <<storeVars, conn, loads, creates, deletes, acks, server>>

\* stopTask up to its await of agentApi.stopTask; the closure keeps the
\* sseController it read at the start
stopTask ==
    /\ Call
    /\ IF ~isProcessing
       THEN /\ console' = WarnNotProcessing
            /\ UNCHANGED <<storeVars, envVars>>
       ELSE IF currentSession = NoSession
       THEN /\ console' = WarnNoActiveSession
            /\ UNCHANGED <<storeVars, envVars>>
       ELSE /\ stops' = BagAdd(stops, sseController)
            /\ console' = ""
            /\ UNCHANGED <<storeVars, conn, loads, creates, deletes, acks, server>>

\* the stop request resolved: the rest of the try block
stopTaskResolved(k) ==
    /\ stops[k] > 0
    /\ stops' = BagRemove(stops, k)
    /\ conn' = abort(conn, k)
    /\ messages' = updateLastMessage(messages,
           [content |-> TextStoppedDefault, isStreaming |-> FALSE])
    /\ isProcessing' = FALSE
    /\ sseController' = NoController
    /\ UNCHANGED <<calls, inputVars, reader>>
    /\ console' = ""
    /\ UNCHANGED <<sessions, currentSession, isCreatingSession, selectedAgentType,
                   screenshot, takeover, loads, creates, deletes, acks, server>>

\* a catch block of stopTask that only logs the failure
stopTaskRejected_LogOnly(k) ==
    /\ stops[k] > 0
    /\ stops' = BagRemove(stops, k)
    /\ UNCHANGED <<calls, inputVars, reader>>
    /\ console' = "Failed to send stop signal"
    /\ UNCHANGED <<storeVars, conn, loads, creates, deletes, acks, server>>

\* the stop request rejected: the catch block
stopTaskRejected(k) ==
    /\ stops[k] > 0
    /\ stops' = BagRemove(stops, k)
    /\ messages' = updateLastMessage(messages,
           [content |-> TextCancelled, isStreaming |-> FALSE])
    /\ isProcessing' = FALSE
    /\ sseController' = NoController
    /\ UNCHANGED <<calls, inputVars, reader>>
    /\ console' = "Failed to send stop signal"
    /\ UNCHANGED <<sessions, currentSession, isCreatingSession, selectedAgentType,
                   screenshot, takeover, conn, loads, creates, deletes, acks, server>>

\* ------------------------------------------------------------- sessions
setAgentType(agentType) ==
    /\ Call
    /\ selectedAgentType' = agentType
    /\ console' = ""
    /\ UNCHANGED <<sessions, currentSession, isCreatingSession, messages, isProcessing,
                   screenshot, takeover, sseController, envVars>>

\* the list the server returns, newest (highest id) first
RECURSIVE ListOf(_)
ListOf(S) == IF S = {} THEN <<>>
             ELSE LET x == CHOOSE y \in S : \A z \in S : z.id <= y.id
                  IN  <<x>> \o ListOf(S \ {x})

\* fetchSessions: the response of sessionsApi.list arrives (ok) or the
\* request rejects
fetchSessions(ok) ==
    /\ Call
    /\ sessions' = IF ok THEN ListOf(server.live) ELSE sessions
    /\ console' = IF ok THEN "" ELSE "Failed to fetch sessions"
    /\ UNCHANGED <<currentSession, isCreatingSession, selectedAgentType, messages,
                   isProcessing, screenshot, takeover, sseController, envVars>>

\* the sessions the layout lists, which the user can select or close
ListedSessions == {sessions[i] : i \in 1..Len(sessions)}
ListedIds == {sessions[i].id : i \in 1..Len(sessions)}

\* selectSession up to its await of getConversations
selectSession(session) ==
    /\ Call
    /\ conn' = abort(conn, sseController)
    /\ currentSession' = session
    /\ messages' = <<>>
    /\ screenshot' = NoScreenshot
    /\ isProcessing' = FALSE
    /\ selectedAgentType' = OrElse(session.agent_type, DefaultAgent)
    /\ sseController' = NoController
    /\ loads' = BagAdd(loads, session.id)
    /\ console' = ""
    /\ UNCHANGED <<sessions, isCreatingSession, takeover,
                   stops, creates, deletes, acks, server>>

\* a history response that is appended to the messages already held
selectSessionLoaded_Appends(sid) ==
    /\ loads[sid] > 0
    /\ loads' = BagRemove(loads, sid)
    /\ messages' = messages \o ConvToMessages(Conversations(sid))
    /\ UNCHANGED <<calls, inputVars, reader>>
    /\ console' = ""
    /\ UNCHANGED <<sessions, currentSession, isCreatingSession, selectedAgentType,
                   isProcessing, screenshot, takeover, sseController,
                   conn, stops, creates, deletes, acks, server>>

\* the conversations arrived: they are converted and replace messages
selectSessionLoaded(sid) ==
    /\ loads[sid] > 0
    /\ loads' = BagRemove(loads, sid)
    /\ messages' = ConvToMessages(Conversations(sid))
    /\ UNCHANGED <<calls, inputVars, reader>>
    /\ console' = ""
    /\ UNCHANGED <<sessions, currentSession, isCreatingSession, selectedAgentType,
                   isProcessing, screenshot, takeover, sseController,
                   conn, stops, creates, deletes, acks, server>>

\* getConversations rejected: logged, nothing else
selectSessionFailed(sid) ==
    /\ loads[sid] > 0
    /\ loads' = BagRemove(loads, sid)
    /\ UNCHANGED <<calls, inputVars, reader>>
    /\ console' = "Failed to load conversation history"
    /\ UNCHANGED <<storeVars, conn, stops, creates, deletes, acks, server>>

\* createSession up to its await of sessionsApi.create
createSession ==
    /\ Call
    /\ isCreatingSession' = TRUE
    /\ conn' = abort(conn, sseController)
    /\ creates' = BagAdd(creates, selectedAgentType)
    /\ console' = ""
    /\ UNCHANGED <<sessions, currentSession, selectedAgentType, messages, isProcessing,
                   screenshot, takeover, sseController,
                   stops, loads, deletes, acks, server>>

\* the session was created: the set(...) after the await, then the finally
createSessionResolved(agentType) ==
    /\ creates[agentType] > 0
    /\ LET session == [id |-> server.issued + 1, agent_type |-> agentType]
       IN  /\ server' = [live |-> server.live \cup {session},
                         issued |-> server.issued + 1]
           /\ sessions' = <<session>> \o sessions
           /\ currentSession' = session
    /\ creates' = BagRemove(creates, agentType)
    /\ messages' = <<>>
    /\ screenshot' = NoScreenshot
    /\ isProcessing' = FALSE
    /\ takeover' = NoTakeover
    /\ sseController' = NoController
    /\ isCreatingSession' = FALSE
    /\ UNCHANGED <<calls, inputVars, reader>>
    /\ console' = ""
    /\ UNCHANGED <<selectedAgentType, conn, stops, loads, deletes, acks>>

\* sessionsApi.create rejected: only the finally runs, the error is rethrown
createSessionRejected(agentType) ==
    /\ creates[agentType] > 0
    /\ creates' = BagRemove(creates, agentType)
    /\ isCreatingSession' = FALSE
    /\ UNCHANGED <<calls, inputVars, reader>>
    /\ console' = ""
    /\ UNCHANGED <<sessions, currentSession, selectedAgentType, messages, isProcessing,
                   screenshot, takeover, sseController,
                   conn, stops, loads, deletes, acks, server>>

\* closeSession up to its await of sessionsApi.delete
closeSession(sessionId) ==
    /\ Call
    /\ deletes' = BagAdd(deletes, sessionId)
    /\ console' = ""
    /\ UNCHANGED <<storeVars, conn, stops, loads, creates, acks, server>>

\* state.sessions.filter((s) => s.id !== sessionId)
RECURSIVE Without(_, _)
Without(list, sessionId) ==
    IF Len(list) = 0 THEN <<>>
    ELSE IF list[1].id = sessionId THEN Without(Tail(list), sessionId)
    ELSE <<list[1]>> \o Without(Tail(list), sessionId)

\* the session was deleted: the rest of the try block
closeSessionResolved(sessionId) ==
    /\ deletes[sessionId] > 0
    /\ \E s \in server.live : s.id = sessionId
    /\ deletes' = BagRemove(deletes, sessionId)
    /\ server' = [server EXCEPT !.live = {s \in @ : s.id # sessionId}]
    /\ IF currentSession.id = sessionId
       THEN /\ conn' = abort(conn, sseController)
            /\ currentSession' = NoSession
            /\ sseController' = NoController
            /\ messages' = <<>>
            /\ screenshot' = NoScreenshot
       ELSE UNCHANGED <<conn, currentSession, sseController, messages, screenshot>>
    /\ sessions' = Without(sessions, sessionId)
    /\ UNCHANGED <<calls, inputVars, reader>>
    /\ console' = ""
    /\ UNCHANGED <<isCreatingSession, selectedAgentType, isProcessing, takeover,
                   stops, loads, creates, acks>>

\* sessionsApi.delete rejected: logged and rethrown
closeSessionRejected(sessionId) ==
    /\ deletes[sessionId] > 0
    /\ deletes' = BagRemove(deletes, sessionId)
    /\ UNCHANGED <<calls, inputVars, reader>>
    /\ console' = "Failed to close session"
    /\ UNCHANGED <<storeVars, conn, stops, loads, creates, acks, server>>

\* ------------------------------------------------------------- takeover
\* completeTakeover up to its await (or to its end when no session is
\* selected)
completeTakeover ==
    /\ Call
    /\ IF currentSession # NoSession
       THEN /\ acks' = acks + 1
            /\ console' = ""
            /\ UNCHANGED <<storeVars, conn, stops, loads, creates, deletes, server>>
       ELSE /\ takeover' = NoTakeover
            /\ console' = ""
            /\ UNCHANGED <<sessions, currentSession, isCreatingSession, selectedAgentType,
                           messages, isProcessing, screenshot, sseController, envVars>>

\* a completeTakeover that clears the flag inside its try block only
completeTakeoverSettled_ClearOnSuccess(ok) ==
    /\ acks > 0
    /\ acks' = acks - 1
    /\ takeover' = IF ok THEN NoTakeover ELSE takeover
    /\ UNCHANGED <<calls, inputVars, reader>>
    /\ console' = IF ok THEN "" ELSE "Failed to complete takeover"
    /\ UNCHANGED <<sessions, currentSession, isCreatingSession, selectedAgentType,
                   messages, isProcessing, screenshot, sseController,
                   conn, stops, loads, creates, deletes, server>>

\* agentApi.completeTakeover resolved (ok) or rejected: the flag is cleared
completeTakeoverSettled(ok) ==
    /\ acks > 0
    /\ acks' = acks - 1
    /\ takeover' = NoTakeover
    /\ UNCHANGED <<calls, inputVars, reader>>
    /\ console' = IF ok THEN "" ELSE "Failed to complete takeover"
    /\ UNCHANGED <<sessions, currentSession, isCreatingSession, selectedAgentType,
                   messages, isProcessing, screenshot, sseController,
                   conn, stops, loads, creates, deletes, server>>

\* ------------------------------------------------------------------ Next
Next ==
    \/ \E task \in Tasks : sendTask(task)
    \/ \E c \in ConnIds : sendTaskOpened(c)
    \/ \E c \in ConnIds : sendTaskFailed(c)
    \/ \E c \in ConnIds, f \in Frames : DeliverFrame(c, f)
    \/ \E c \in ConnIds : RemoteClose(c)
    \/ \E c \in ConnIds : ResponseNotOk(c)
    \/ \E c \in ConnIds : ConnectionFailure(c)
    \/ stopTask
    \/ \E k \in Controllers : stopTaskResolved(k)
    \/ \E k \in Controllers : stopTaskRejected(k)
    \/ \E a \in AgentTypes : setAgentType(a)
    \/ \E ok \in BOOLEAN : fetchSessions(ok)
    \/ \E session \in ListedSessions : selectSession(session)
    \/ \E sid \in SessionIds : selectSessionLoaded(sid)
    \/ \E sid \in SessionIds : selectSessionFailed(sid)
    \/ createSession
    \/ \E a \in AgentTypes : createSessionResolved(a)
    \/ \E a \in AgentTypes : createSessionRejected(a)
    \/ \E sessionId \in ListedIds : closeSession(sessionId)
    \/ \E sid \in SessionIds : closeSessionResolved(sid)
    \/ \E sid \in SessionIds : closeSessionRejected(sid)
    \/ completeTakeover
    \/ \E ok \in BOOLEAN : completeTakeoverSettled(ok)

Spec == Init /\ [][Next]_vars

\* ------------------------------------------------ one task's frame stream
\* The frames of one accepted task, applied in order to its placeholder:
\* a second specification over the same store, for what the handlers make
\* of a sequence of frames.
MaxSeqLen == 5      \* frames applied to the one task

\* payloads of the stream: full may be '', chunk and duration are optional
StreamThinkingFrames ==
    {[kind |-> "thinking", full |-> "p1", chunk |-> Absent, duration |-> NoDuration],
     [kind |-> "thinking", full |-> "p2", chunk |-> "c1", duration |-> 2],
     [kind |-> "thinking", full |-> "", chunk |-> "c1", duration |-> NoDuration],
     [kind |-> "thinking", full |-> "", chunk |-> Absent, duration |-> 2]}
StreamActionFrames ==
    {[kind |-> "action", action |-> "tap", duration |-> 1],
     [kind |-> "action", action |-> "swipe", duration |-> NoDuration]}
StreamFrames ==
    StreamThinkingFrames \cup StreamActionFrames \cup ScreenshotFrames
    \cup TakeoverFrames \cup ReadyFrames
    \cup {[kind |-> "completed", message |-> Absent]} \cup ErrorFrames \cup StoppedFrames

\* the store after fetchSessions, selectSession(session 1) with its history
\* loaded, sendTask("t1") accepted and its connection opened
InitStream ==
    /\ sessions = <<[id |-> 1, agent_type |-> "gelab"]>>
    /\ currentSession = [id |-> 1, agent_type |-> "gelab"]
    /\ isCreatingSession = FALSE
    /\ selectedAgentType = "gelab"
    /\ messages = ConvToMessages(SeedRows) \o
           << [id |-> <<"user", 1>>, role |-> "user", content |-> "t1",
               steps |-> <<>>, isStreaming |-> FALSE, action |-> NoAction],
              [id |-> <<"assistant", 1>>, role |-> "assistant", content |-> "",
               steps |-> <<>>, isStreaming |-> TRUE, action |-> NoAction] >>
    /\ isProcessing = TRUE
    /\ screenshot = NoScreenshot
    /\ takeover = NoTakeover
    /\ sseController = 1
    /\ conn = [c \in ConnIds |->
                 IF c = 1 THEN [st |-> "open", session |-> 1, agentType |-> "gelab",
                                nframes |-> 0, term |-> FALSE]
                 ELSE UnusedConn]
    /\ stops = [k \in Controllers |-> 0]
    /\ loads = [sid \in SessionIds |-> 0]
    /\ creates = [a \in AgentTypes |-> 0]
    /\ deletes = [sid \in SessionIds |-> 0]
    /\ acks = 0
    /\ server = [live |-> {[id |-> 1, agent_type |-> "gelab"]}, issued |-> 1]
    /\ calls = 3
    /\ console = ""
    /\ storedRows = SeedRows
    /\ reader = NoReader

\* the next frame of the task's stream is read and dispatched
StreamFrame(f) ==
    /\ Live(1)
    /\ conn[1].nframes < MaxSeqLen
    /\ Dispatch(f)
    /\ conn' = [conn EXCEPT ![1].nframes = @ + 1,
                            ![1].term = @ \/ f.kind \in TerminalKinds]
    /\ UNCHANGED <<calls, inputVars, reader>>
    /\ console' = IF f.kind = "error" THEN "SSE error" ELSE ""
    /\ UNCHANGED <<stops, loads, creates, deletes, acks, server>>

NextStream == \E f \in StreamFrames : StreamFrame(f)

SpecStream == InitStream /\ [][NextStream]_vars

\* ------------------------------------------------- reopening a session
\* A third specification over the same store: session 1 is listed, its
\* stored rows are drawn from the shapes the conversion distinguishes, and
\* the session is selected (and selected again) while its history loads.
MaxStoredSteps == 2     \* length of a stored steps array

\* a stored step: each field may be missing; 0 and "" are stored values
StoredSteps ==
    [stepNumber : {NoStepNumber, 0, 7},
     thinking : {Absent, "h1"},
     action : {NoAction, "tap"},
     status : {Absent, "", "thinking"}]

SeqsUpTo(S, n) == UNION {[1..k -> S] : k \in 0..n}

\* assistant rows of the new shape: action.steps is an array
NewShapeRows ==
    {[id |-> 12, role |-> "assistant", content |-> "old answer",
      thinking |-> Absent, action |-> StepsAction(ss)] :
        ss \in SeqsUpTo(StoredSteps, MaxStoredSteps)}

\* assistant rows of the legacy shape: top-level thinking and action
LegacyRows ==
    {[id |-> 12, role |-> "assistant", content |-> "old answer",
      thinking |-> t, action |-> a] :
        t \in {Absent, "", "h1"}, a \in {NullAction, PlainAction("tap")}}

\* the store after fetchSessions listed session 1
InitHistory ==
    /\ storedRows \in
          {<<SeedRows[1], row>> : row \in NewShapeRows \cup LegacyRows}
    /\ sessions = <<[id |-> 1, agent_type |-> "gelab"]>>
    /\ currentSession = NoSession
    /\ isCreatingSession = FALSE
    /\ selectedAgentType = DefaultAgent
    /\ messages = <<>>
    /\ isProcessing = FALSE
    /\ screenshot = NoScreenshot
    /\ takeover = NoTakeover
    /\ sseController = NoController
    /\ conn = [c \in ConnIds |-> UnusedConn]
    /\ stops = [k \in Controllers |-> 0]
    /\ loads = [sid \in SessionIds |-> 0]
    /\ creates = [a \in AgentTypes |-> 0]
    /\ deletes = [sid \in SessionIds |-> 0]
    /\ acks = 0
    /\ server = [live |-> {[id |-> 1, agent_type |-> "gelab"]}, issued |-> 1]
    /\ calls = 1
    /\ console = ""
    /\ reader = NoReader

NextHistory ==
    \/ \E session \in ListedSessions : selectSession(session)
    \/ \E sid \in SessionIds : selectSessionLoaded(sid)
    \/ \E sid \in SessionIds : selectSessionFailed(sid)

SpecHistory == InitHistory /\ [][NextHistory]_vars

\* ------------------------------------------------- the body read as text
\* A fourth specification over the same store: the body of the task's
\* response arrives as text, cut into chunks at any place, and the loop of
\* runTaskWithSSE buffers, splits, parses and dispatches it.  A text is a
\* sequence of symbols: a newline, a line prefix, an event name and a JSON
\* payload are one symbol each (the loop never looks inside them), and a
\* chunk ends between any two symbols.
MaxPieces == 3      \* frames (well-formed or not) the body is made of

NL == "\n"
EventPrefix == <<"event: ">>
DataPrefix == <<"data: ">>

\* String.prototype.startsWith, slice(n), indexOf and split
startsWith(text, prefix) ==
    Len(text) >= Len(prefix) /\ SubSeq(text, 1, Len(prefix)) = prefix
slice(text, n) == SubSeq(text, n + 1, Len(text))
indexOf(text, sep) ==
    LET at == {i \in 1..(Len(text) - Len(sep) + 1) :
                  SubSeq(text, i, i + Len(sep) - 1) = sep}
    IN  IF at = {} THEN 0 ELSE CHOOSE i \in at : \A j \in at : i <= j
RECURSIVE split(_, _)
split(text, sep) ==
    LET i == indexOf(text, sep)
    IN  IF i = 0 THEN <<text>>
        ELSE <<SubSeq(text, 1, i - 1)>> \o split(slice(text, i + Len(sep) - 1), sep)

\* !eventStr.trim()
IsBlank(text) == \A i \in 1..Len(text) : text[i] \in {NL, " "}

\* the for loop over the lines of one event: the last event: and the last
\* data: line win
RECURSIVE ScanLines(_, _)
ScanLines(lines, ev) ==
    IF Len(lines) = 0 THEN ev
    ELSE LET line == Head(lines)
         IN  ScanLines(Tail(lines),
                 IF startsWith(line, EventPrefix)
                 THEN [ev EXCEPT !.eventType = slice(line, Len(EventPrefix))]
                 ELSE IF startsWith(line, DataPrefix)
                 THEN [ev EXCEPT !.eventData = slice(line, Len(DataPrefix))]
                 ELSE ev)

\* JSON.parse of the payload symbols: two objects, null, and a text that
\* is not JSON
JsonParse(text) ==
    IF text = <<"{full:p1}">>
    THEN [ok |-> TRUE, isNull |-> FALSE,
          value |-> [full |-> "p1", chunk |-> Absent, duration |-> NoDuration,
                     action |-> NoAction]]
    ELSE IF text = <<"{action:tap}">>
    THEN [ok |-> TRUE, isNull |-> FALSE,
          value |-> [full |-> Absent, chunk |-> Absent, duration |-> 1,
                     action |-> "tap"]]
    ELSE IF text = <<"null">>
    THEN [ok |-> TRUE, isNull |-> TRUE, value |-> Absent]
    ELSE [ok |-> FALSE, isNull |-> FALSE, value |-> Absent]

\* handlers that take a null payload for an object without fields
HandleEvent_NullAsEmptyObject(msgs, ev) ==
    LET data == JsonParse(ev.eventData)
        value == IF data.isNull
                 THEN [full |-> Absent, chunk |-> Absent, duration |-> NoDuration,
                       action |-> NoAction]
                 ELSE data.value
    IN  IF ~data.ok THEN msgs
        ELSE IF ev.eventType = <<"thinking">> THEN onThinking(msgs, value)
        ELSE IF ev.eventType = <<"action">> THEN onAction(msgs, value)
        ELSE msgs

\* the body of the try block for one event: JSON.parse, then the switch.
\* A handler given null throws a TypeError before it writes anything; the
\* catch logs it, as it logs a payload that does not parse.
HandleEvent(msgs, ev) ==
    LET data == JsonParse(ev.eventData)
    IN  IF ~data.ok \/ data.isNull THEN msgs
        ELSE IF ev.eventType = <<"thinking">> THEN onThinking(msgs, data.value)
        ELSE IF ev.eventType = <<"action">> THEN onAction(msgs, data.value)
        ELSE msgs

\* the for loop over the complete events of the buffer: r is the messages
\* and the log of the events whose payload reached the try block
RECURSIVE DispatchEvents(_, _)
DispatchEvents(events, r) ==
    IF Len(events) = 0 THEN r
    ELSE LET eventStr == Head(events)
             ev == ScanLines(split(eventStr, <<NL>>),
                             [eventType |-> <<>>, eventData |-> <<>>])
         IN  IF IsBlank(eventStr) THEN DispatchEvents(Tail(events), r)
             ELSE IF ev.eventType = <<>> \/ ev.eventData = <<>>
             THEN DispatchEvents(Tail(events), r)
             ELSE DispatchEvents(Tail(events),
                      [msgs |-> HandleEvent(r.msgs, ev), log |-> Append(r.log, ev)])

\* a loop that forgets the unterminated tail of the buffer
Feed_DropsTail(buffer, chunk) ==
    LET events == split(buffer \o chunk, <<NL, NL>>)
    IN  [events |-> SubSeq(events, 1, Len(events) - 1),
         buffer |-> <<>>]

\* one turn of the while loop on a chunk: buffer += chunk, split, pop
Feed(buffer, chunk) ==
    LET events == split(buffer \o chunk, <<NL, NL>>)
    IN  [events |-> SubSeq(events, 1, Len(events) - 1),
         buffer |-> events[Len(events)]]

\* the texts a body is made of
PieceText(piece) ==
    CASE piece = "thinking" ->
           EventPrefix \o <<"thinking", NL>> \o DataPrefix \o <<"{full:p1}", NL, NL>>
      [] piece = "action" ->
           EventPrefix \o <<"action", NL>> \o DataPrefix \o <<"{action:tap}", NL, NL>>
      [] piece = "no data line" -> EventPrefix \o <<"thinking", NL, NL>>
      [] piece = "no event line" -> DataPrefix \o <<"{full:p1}", NL, NL>>
      [] piece = "not json" ->
           EventPrefix \o <<"thinking", NL>> \o DataPrefix \o <<"{full:", NL, NL>>
      [] piece = "null payload" ->
           EventPrefix \o <<"thinking", NL>> \o DataPrefix \o <<"null", NL, NL>>
Pieces == {"thinking", "action", "no data line", "no event line", "not json",
           "null payload"}
RECURSIVE BodyText(_)
BodyText(pieces) ==
    IF Len(pieces) = 0 THEN <<>> ELSE PieceText(Head(pieces)) \o BodyText(Tail(pieces))

\* bodies: up to MaxPieces frames
Bodies == SeqsUpTo(Pieces, MaxPieces)

\* the messages of InitStream: the history, the task and the placeholder
ReaderMessages ==
    ConvToMessages(SeedRows) \o
        << [id |-> <<"user", 1>>, role |-> "user", content |-> "t1",
            steps |-> <<>>, isStreaming |-> FALSE, action |-> NoAction],
           [id |-> <<"assistant", 1>>, role |-> "assistant", content |-> "",
            steps |-> <<>>, isStreaming |-> TRUE, action |-> NoAction] >>

\* a chunk of n symbols of the rest of the body ends between the two
\* newlines of a terminator
CutsTerminator(rest, n) ==
    n >= 1 /\ n < Len(rest) /\ rest[n] = NL /\ rest[n + 1] = NL

\* the store of InitStream, with the body of its connection still unread
InitReader ==
    /\ reader \in {[pieces |-> ps, rest |-> BodyText(ps), buffer |-> <<>>, log |-> <<>>,
                     cuts |-> 0] : ps \in Bodies}
    /\ sessions = <<[id |-> 1, agent_type |-> "gelab"]>>
    /\ currentSession = [id |-> 1, agent_type |-> "gelab"]
    /\ isCreatingSession = FALSE
    /\ selectedAgentType = "gelab"
    /\ messages = ReaderMessages
    /\ isProcessing = TRUE
    /\ screenshot = NoScreenshot
    /\ takeover = NoTakeover
    /\ sseController = 1
    /\ conn = [c \in ConnIds |->
                 IF c = 1 THEN [st |-> "open", session |-> 1, agentType |-> "gelab",
                                nframes |-> 0, term |-> FALSE]
                 ELSE UnusedConn]
    /\ stops = [k \in Controllers |-> 0]
    /\ loads = [sid \in SessionIds |-> 0]
    /\ creates = [a \in AgentTypes |-> 0]
    /\ deletes = [sid \in SessionIds |-> 0]
    /\ acks = 0
    /\ server = [live |-> {[id |-> 1, agent_type |-> "gelab"]}, issued |-> 1]
    /\ calls = 3
    /\ console = ""
    /\ storedRows = SeedRows

\* reader.read() resolves with the next n characters of the body (n may
\* be 0): they are appended to the buffer and every complete event of the
\* buffer is parsed and dispatched, in order
ReadChunk(n) ==
    /\ Live(1)
    /\ n <= Len(reader.rest)
    /\ LET fed == Feed(reader.buffer, SubSeq(reader.rest, 1, n))
           r == DispatchEvents(fed.events, [msgs |-> messages, log |-> <<>>])
       IN  /\ messages' = r.msgs
           /\ reader' = [reader EXCEPT !.rest = slice(@, n),
                                       !.buffer = fed.buffer,
                                       !.log = @ \o r.log,
                                       !.cuts = IF CutsTerminator(reader.rest, n) THEN 1 ELSE @]
           /\ conn' = [conn EXCEPT ![1].nframes = @ + Len(r.log)]
           /\ console' = IF \E i \in 1..Len(r.log) :
                               LET data == JsonParse(r.log[i].eventData)
                               IN  ~data.ok \/ data.isNull
                         THEN "Failed to parse SSE event data" ELSE ""
    /\ UNCHANGED <<sessions, currentSession, isCreatingSession, selectedAgentType,
                   isProcessing, screenshot, takeover, sseController,
                   stops, loads, creates, deletes, acks, server, calls, inputVars>>

\* the longest frame has 7 symbols
NextReader == \E n \in 0..(7 * MaxPieces) : ReadChunk(n)

SpecReader == InitReader /\ [][NextReader]_vars

\* -------------------------------------------- two sessions to select from
\* A fifth specification: the server holds two sessions, fetchSessions has
\* listed both, and the user selects among them while the history
\* requests are answered in any order.
SelectSessions ==
    {[id |-> 1, agent_type |-> "gelab"], [id |-> 2, agent_type |-> "glm"]}

InitSelect ==
    /\ storedRows \in {SeedRows} \cup {<<SeedRows[1], row>> : row \in LegacyRows}
    /\ sessions = ListOf(SelectSessions)
    /\ currentSession = NoSession
    /\ isCreatingSession = FALSE
    /\ selectedAgentType = DefaultAgent
    /\ messages = <<>>
    /\ isProcessing = FALSE
    /\ screenshot = NoScreenshot
    /\ takeover = NoTakeover
    /\ sseController = NoController
    /\ conn = [c \in ConnIds |-> UnusedConn]
    /\ stops = [k \in Controllers |-> 0]
    /\ loads = [sid \in SessionIds |-> 0]
    /\ creates = [a \in AgentTypes |-> 0]
    /\ deletes = [sid \in SessionIds |-> 0]
    /\ acks = 0
    /\ server = [live |-> SelectSessions, issued |-> 2]
    /\ calls = 1
    /\ console = ""
    /\ reader = NoReader

NextSelect ==
    \/ \E session \in ListedSessions : selectSession(session)
    \/ \E sid \in SessionIds : selectSessionLoaded(sid)

SpecSelect == InitSelect /\ [][NextSelect]_vars

\* ================================================================ claims

\* C1: the placeholder assistant message of a task run is closed exactly
\* once: once it is closed (isStreaming = FALSE), no later step (frame,
\* stopTask completion, failure) changes its content or reopens it.
C1_ClosedExactlyOnce ==
    [][\A i \in 1..Len(messages) :
          (/\ i <= Len(messages')
           /\ messages'[i].id = messages[i].id
           /\ messages[i].id[1] = "assistant"
           /\ ~messages[i].isStreaming)
          => (/\ messages'[i].content = messages[i].content
              /\ ~messages'[i].isStreaming)]_vars

\* C2: once a completed, error or stopped frame has been dispatched on a
\* connection, no later frame of that connection changes the messages, the
\* screenshot, the takeover flag or isProcessing.
C2_NoFrameAfterTerminal ==
    [][\A c \in ConnIds, f \in Frames :
          (conn[c].term /\ DeliverFrame(c, f))
          => UNCHANGED <<messages, screenshot, takeover, isProcessing>>]_vars

\* C3: at most one streaming connection is live (opened, neither aborted
\* nor ended) at any time.
C3_AtMostOneLive == Cardinality({c \in ConnIds : Live(c)}) <= 1

\* C4: a frame of a connection that was opened for another session than the
\* current one changes neither messages, screenshot, takeover nor
\* isProcessing.
C4_NoStaleFrame ==
    [][\A c \in ConnIds, f \in Frames :
          (/\ currentSession # NoSession
           /\ conn[c].session # currentSession.id
           /\ DeliverFrame(c, f))
          => UNCHANGED <<messages, screenshot, takeover, isProcessing>>]_vars

\* C5: when a stopTask call made on a running task with an open connection
\* completes, that connection has been aborted, whether the stop request
\* resolved or rejected.
C5_StopAborts ==
    [][\A k \in ConnIds :
          (stopTaskResolved(k) \/ stopTaskRejected(k)) => conn'[k].st # "open"]_vars

C7_StopFlipsImmediately ==
    BagSize(stops) > 0 =>
        (/\ ~isProcessing
         /\ \A i \in 1..Len(messages) : ~messages[i].isStreaming)

\* C8: while the takeover flag is active a sendTask call appends no message,
\* does not set isProcessing and creates no connection.
C8_NoSendDuringTakeover ==
    [][\A task \in Tasks :
          (takeover.isActive /\ sendTask(task))
          => UNCHANGED <<messages, isProcessing, conn>>]_vars

\* C9: a sendTask call made while isProcessing is true or while no session
\* is selected changes neither the store nor any connection, and sends
\* nothing.
C9_SendRejectedIsNoOp ==
    [][\A task \in Tasks :
          ((isProcessing \/ currentSession = NoSession) /\ sendTask(task))
          => UNCHANGED <<storeVars, envVars>>]_vars

\* C9 witness: a second sendTask call right after an accepted one was
\* rejected, and one connection record exists
C9_Witness ==
    /\ console = WarnAlreadyProcessing
    /\ isProcessing
    /\ Cardinality({c \in ConnIds : conn[c].st # "unused"}) = 1
    /\ Len(messages) = 2

\* C10: an accepted sendTask call appends the user message with the task
\* text and then the streaming placeholder (no step, empty content), keeps
\* the earlier messages, sets isProcessing and creates exactly one
\* connection request, for the current session and the selected agent type;
\* a connection only ever opens from such a request.
C10_SendAccepted ==
    [][/\ \A task \in Tasks :
            (~isProcessing /\ currentSession # NoSession /\ sendTask(task))
            => (/\ Len(messages') = Len(messages) + 2
                /\ SubSeq(messages', 1, Len(messages)) = messages
                /\ messages'[Len(messages) + 1].role = "user"
                /\ messages'[Len(messages) + 1].content = task
                /\ messages'[Len(messages) + 2].role = "assistant"
                /\ messages'[Len(messages) + 2].isStreaming
                /\ messages'[Len(messages) + 2].steps = <<>>
                /\ messages'[Len(messages) + 2].content = ""
                /\ isProcessing'
                /\ \E c \in ConnIds :
                      /\ conn[c].st = "unused"
                      /\ conn'[c].st = "pending"
                      /\ conn'[c].session = currentSession.id
                      /\ \A d \in ConnIds \ {c} : conn'[d] = conn[d])
       /\ \A c \in ConnIds :
            (conn[c].st # "open" /\ conn'[c].st = "open")
            => (/\ conn[c].st = "pending"
                /\ \A d \in ConnIds \ {c} : conn'[d] = conn[d])]_vars

\* C10 witness: a task was accepted on a session whose history was loaded,
\* and its connection request is out
C10_Witness ==
    /\ Len(messages) = 4
    /\ messages[1].id[1] = "conv"
    /\ messages[3].role = "user"
    /\ messages[4].isStreaming
    /\ isProcessing
    /\ \E c \in ConnIds : conn[c].st = "pending" /\ conn[c].session = currentSession.id

\* C11: when the remote end closes the stream of a running task, the task
\* eventually returns to Idle and its assistant message is closed, also
\* when no completed, error or stopped frame was received.  In finite-run
\* form: once nothing is pending any more (no request awaits an answer, no
\* connection is pending or open), a task whose connection ended is not
\* processing and its message is not streaming.
C11_IdleAfterRemoteClose ==
    \A c \in ConnIds :
       (/\ conn[c].st = "ended"
        /\ sseController = c
        /\ \A d \in ConnIds : conn[d].st \notin {"pending", "open"}
        /\ BagSize(stops) = 0 /\ BagSize(loads) = 0 /\ BagSize(creates) = 0
        /\ BagSize(deletes) = 0 /\ acks = 0)
       => (/\ ~isProcessing
           /\ Len(messages) > 0 => ~Last(messages).isStreaming)

\* C12: a connection-level failure of the streaming request invokes
\* onConnectionError once: the streaming last message is closed with the
\* connection-error text, isProcessing becomes false, sseController null,
\* no other connection changes (none is opened), and a failed connection
\* never acts again (no second invocation, no reconnect).
C12_ConnectionFailureEndsTask ==
    [][\A c \in ConnIds :
          /\ ConnectionFailure(c)
             => /\ console' = "SSE connection error"
                /\ Len(messages') = Len(messages)
                /\ (Len(messages) > 0 /\ Last(messages).isStreaming)
                   => /\ Last(messages').content = TextConnectionError
                      /\ ~Last(messages').isStreaming
                /\ ~isProcessing'
                /\ sseController' = NoController
                /\ conn'[c].st = "failed"
                /\ \A d \in ConnIds \ {c} : conn'[d] = conn[d]
          /\ conn[c].st = "failed"
             => /\ conn'[c] = conn[c]
                /\ console' # "SSE connection error"
                   \/ \E d \in ConnIds \ {c} : ConnectionFailure(d)]_vars

\* C12 witness: the connection of a running task just failed and the
\* placeholder holds the connection-error text
C12_Witness ==
    /\ console = "SSE connection error"
    /\ \E c \in ConnIds : conn[c].st = "failed"
    /\ Len(messages) > 0
    /\ Last(messages).content = TextConnectionError
    /\ ~Last(messages).isStreaming
    /\ ~isProcessing
    /\ sseController = NoController

C14_TakeoverAlwaysCleared ==
    [][/\ \A ok \in BOOLEAN :
            completeTakeoverSettled(ok)
            => /\ ~takeover'.isActive
               /\ acks' = acks - 1
               /\ ~ok => console' = "Failed to complete takeover"
               /\ UNCHANGED <<messages, isProcessing, sseController, currentSession>>
       /\ completeTakeover
          => /\ IF currentSession = NoSession
                THEN ~takeover'.isActive /\ acks' = acks
                ELSE acks' = acks + 1
             /\ UNCHANGED <<messages, isProcessing, sseController, currentSession>>]_vars

\* C14 witness: the takeover-complete request of a running task that had
\* received a frame was rejected, and the flag is clear
C14_Witness ==
    /\ console = "Failed to complete takeover"
    /\ ~takeover.isActive
    /\ acks = 0
    /\ isProcessing
    /\ \E c \in ConnIds : conn[c].st = "open" /\ conn[c].nframes = 1

\* C15: a completeTakeover call made while takeover.isActive is false
\* sends no takeover-complete request and changes no state.
C15_NoAckWhenInactive ==
    [][(~takeover.isActive /\ completeTakeover)
       => UNCHANGED <<storeVars, envVars>>]_vars

\* C16: task cancellation clears an active takeover: when stopTask has
\* completed (its stop request resolved or rejected), and when
\* selectSession has switched the session, takeover.isActive is false.
C16_CancelClearsTakeover ==
    [][(\/ \E k \in Controllers : stopTaskResolved(k) \/ stopTaskRejected(k)
        \/ \E session \in ListedSessions : selectSession(session))
       => ~takeover'.isActive]_vars

\* C17: an active takeover is cleared only by completeTakeover or by an
\* operation that cancels the task (createSession): no frame of any kind,
\* no end of a stream and no connection failure changes takeover.isActive
\* from true to false.
C17_TakeoverClearedOnlyExplicitly ==
    [][(takeover.isActive /\ ~takeover'.isActive)
       => /\ \/ completeTakeover
             \/ \E ok \in BOOLEAN : completeTakeoverSettled(ok)
             \/ \E a \in AgentTypes : createSessionResolved(a)
          /\ \A c \in ConnIds :
                /\ \A f \in Frames : ~DeliverFrame(c, f)
                /\ ~ConnectionFailure(c)
                /\ ~ResponseNotOk(c)
                /\ ~RemoteClose(c)]_vars

\* C17 witness: the only connection delivered a takeover frame and then
\* failed, and the takeover is still active
C17_Witness ==
    /\ takeover.isActive
    /\ console = "SSE connection error"
    /\ \E c \in ConnIds :
          /\ conn[c].st = "failed"
          /\ conn[c].nframes >= 1
          /\ \A d \in ConnIds \ {c} : conn[d].st = "unused"

\* C18: over the frames applied in order to one task's message, the number
\* of steps equals the number of thinking frames that arrived when the step
\* sequence was empty or its last step was completed: the message starts
\* with no step, such a thinking frame adds exactly one step, and no other
\* frame (of any kind) changes the step count.
C18_StepCount ==
    /\ Len(LastSteps(messages)) = 0
    /\ [][\A f \in StreamFrames :
             StreamFrame(f)
             => LET steps == LastSteps(messages)
                    opens == /\ f.kind = "thinking"
                             /\ Len(steps) = 0 \/ Last(steps).status = "completed"
                IN  Len(LastSteps(messages')) =
                       Len(steps) + (IF opens THEN 1 ELSE 0)]_vars

\* C18 witness: five frames were applied to the open message, of which two
\* opened a step: the first step is completed, the second is thinking
C18_Witness ==
    /\ conn[1].nframes = 5
    /\ Last(messages).isStreaming
    /\ Len(LastSteps(messages)) = 2
    /\ LastSteps(messages)[1].status = "completed"
    /\ LastSteps(messages)[2].status = "thinking"

\* C19: a thinking frame arriving while the last step has status thinking
\* keeps the step count and every other step; of the last step it keeps
\* id, stepNumber, action, actionDuration and status thinking, and replaces
\* thinkingDuration by the payload's duration and the thinking text by the
\* payload's text (full if it is a non-empty text, and never anything that
\* is not in the payload).
C19_ThinkingUpdatesOpenStep ==
    [][\A f \in StreamThinkingFrames :
          (/\ StreamFrame(f)
           /\ Len(LastSteps(messages)) > 0
           /\ Last(LastSteps(messages)).status = "thinking")
          => LET steps == LastSteps(messages)
                 after == LastSteps(messages')
                 n == Len(steps)
             IN  /\ Len(after) = n
                 /\ \A i \in 1..(n - 1) : after[i] = steps[i]
                 /\ after[n].id = steps[n].id
                 /\ after[n].stepNumber = steps[n].stepNumber
                 /\ after[n].action = steps[n].action
                 /\ after[n].actionDuration = steps[n].actionDuration
                 /\ after[n].status = "thinking"
                 /\ after[n].thinkingDuration = f.duration
                 /\ f.full # "" => after[n].thinking = f.full
                 /\ after[n].thinking \in {f.full, f.chunk, ""}]_vars

\* C19 witness: the open message has one step, still thinking, that holds
\* the text and duration of a second thinking frame
C19_Witness ==
    /\ conn[1].nframes = 2
    /\ Last(messages).isStreaming
    /\ Len(LastSteps(messages)) = 1
    /\ LastSteps(messages)[1].status = "thinking"
    /\ LastSteps(messages)[1].thinking = "p2"
    /\ LastSteps(messages)[1].thinkingDuration = 2
    /\ screenshot = NoScreenshot
    /\ ~takeover.isActive

\* C20: an action frame arriving while a step is open (its last step is
\* not completed) sets that step's action and actionDuration from the
\* payload and its status to completed, and keeps the step count, that
\* step's thinking text (and id, stepNumber, thinkingDuration) and all
\* earlier steps; an action frame arriving when the message has no step
\* leaves it without a step.
C20_ActionCompletesOpenStep ==
    [][\A f \in StreamActionFrames :
          StreamFrame(f)
          => LET steps == LastSteps(messages)
                 after == LastSteps(messages')
                 n == Len(steps)
             IN  IF n = 0 THEN Len(after) = 0
                 ELSE steps[n].status # "completed"
                      => /\ Len(after) = n
                         /\ \A i \in 1..(n - 1) : after[i] = steps[i]
                         /\ after[n].action = f.action
                         /\ after[n].actionDuration = f.duration
                         /\ after[n].status = "completed"
                         /\ after[n].thinking = steps[n].thinking
                         /\ after[n].thinkingDuration = steps[n].thinkingDuration
                         /\ after[n].id = steps[n].id
                         /\ after[n].stepNumber = steps[n].stepNumber]_vars

\* C20 witness: a thinking frame and then an action frame were applied to
\* the open message: its one step is completed, with the text of the
\* first and the action and duration of the second
C20_Witness ==
    /\ conn[1].nframes = 2
    /\ Last(messages).isStreaming
    /\ Len(LastSteps(messages)) = 1
    /\ LastSteps(messages)[1].status = "completed"
    /\ LastSteps(messages)[1].thinking = "p1"
    /\ LastSteps(messages)[1].action = "tap"
    /\ LastSteps(messages)[1].actionDuration = 1

\* C21: an action frame that arrives when no thinking frame has opened a
\* step (the message has no step, or its last step is already completed)
\* is a no-op: the step sequence stays as it is.
C21_ActionWithoutOpenStepIsNoOp ==
    [][\A f \in StreamActionFrames :
          (/\ StreamFrame(f)
           /\ \/ Len(LastSteps(messages)) = 0
              \/ Last(LastSteps(messages)).status = "completed")
          => LastSteps(messages') = LastSteps(messages)]_vars

\* C22: in every state of a task's live timeline the steps of its
\* assistant message are numbered 1, 2, ..., n in list order, and at most
\* one step has a status other than completed, that step being the last.
C22_StepsNumberedOneOpen ==
    LET steps == LastSteps(messages)
    IN  /\ \A i \in 1..Len(steps) : steps[i].stepNumber = i
        /\ \A i \in 1..(Len(steps) - 1) : steps[i].status = "completed"

\* C22 witness: a thinking, an action and a thinking frame were applied:
\* step 1 is completed, step 2 is the open one
C22_Witness ==
    /\ conn[1].nframes = 3
    /\ Last(messages).isStreaming
    /\ Len(LastSteps(messages)) = 2
    /\ LastSteps(messages)[1].stepNumber = 1
    /\ LastSteps(messages)[1].status = "completed"
    /\ LastSteps(messages)[2].stepNumber = 2
    /\ LastSteps(messages)[2].status = "thinking"

\* C23: a completed, error or stopped frame never changes the step
\* sequence, so a last step that is still thinking stays thinking after
\* the message is closed.  And the frames thinking, thinking, action,
\* thinking applied to a fresh placeholder give two steps, the first
\* completed with the text of the second thinking frame, the second still
\* thinking; the stopped frame that follows leaves them and writes its
\* message as the content.
C23_TerminalFrameKeepsSteps ==
    /\ LET t1 == [kind |-> "thinking", full |-> "p1", chunk |-> Absent,
                  duration |-> NoDuration]
           t2 == [kind |-> "thinking", full |-> "p2", chunk |-> "c1", duration |-> 2]
           a1 == [kind |-> "action", action |-> "tap", duration |-> 1]
           m0 == << [id |-> <<"assistant", 1>>, role |-> "assistant", content |-> "",
                     steps |-> <<>>, isStreaming |-> TRUE, action |-> NoAction] >>
           m4 == onThinking(onAction(onThinking(onThinking(m0, t1), t2), a1), t1)
           steps == LastSteps(m4)
       IN  /\ Len(steps) = 2
           /\ steps[1].status = "completed"
           /\ steps[1].thinking = "p2"
           /\ steps[1].action = "tap"
           /\ steps[2].status = "thinking"
           /\ steps[2].thinking = "p1"
    /\ [][\A f \in StreamFrames :
             (f.kind \in TerminalKinds /\ StreamFrame(f))
             => /\ LastSteps(messages') = LastSteps(messages)
                /\ ~Last(messages').isStreaming
                /\ (f.kind = "stopped" /\ f.message # Absent)
                   => Last(messages').content = f.message]_vars

\* C23 witness: after thinking, thinking, action, thinking the stopped
\* frame closed the message: two steps, the first completed with the
\* second frame's text, the second still thinking, content "cancelled"
C23_Witness ==
    /\ conn[1].nframes = 5
    /\ conn[1].term
    /\ ~Last(messages).isStreaming
    /\ Last(messages).content = "cancelled"
    /\ Len(LastSteps(messages)) = 2
    /\ LastSteps(messages)[1].status = "completed"
    /\ LastSteps(messages)[1].thinking = "p2"
    /\ LastSteps(messages)[1].thinkingDuration = 2
    /\ LastSteps(messages)[1].action = "tap"
    /\ LastSteps(messages)[2].status = "thinking"
    /\ LastSteps(messages)[2].thinking = "p1"

\* C26: for a stored assistant row whose action embeds a steps array, the
\* loaded message has one step per array element in the same order; each
\* step's stepNumber is the stored value, or its position when the field
\* is missing (positions counted from 1), its status is the stored value,
\* or completed when missing, and its thinking and action are the stored
\* ones.
C26_NewShapeTakenAsIs ==
    [][\A sid \in SessionIds :
          selectSessionLoaded(sid)
          => \A r \in 1..Len(Conversations(sid)) :
                LET row == Conversations(sid)[r]
                    stored == row.action.steps
                    steps == messages'[r].steps
                IN  (row.role = "assistant" /\ ~row.action.isNull /\ row.action.hasSteps)
                    => /\ Len(steps) = Len(stored)
                       /\ \A i \in 1..Len(stored) :
                             /\ steps[i].stepNumber =
                                   IF stored[i].stepNumber = NoStepNumber THEN i
                                   ELSE stored[i].stepNumber
                             /\ steps[i].status =
                                   IF stored[i].status = Absent THEN "completed"
                                   ELSE stored[i].status
                             /\ steps[i].thinking = stored[i].thinking
                             /\ steps[i].action = stored[i].action]_vars

\* C27: for a stored assistant row without a steps array, the loaded
\* message has exactly one step (stepNumber 1, completed, with the row's
\* thinking and action) when thinking or action is present, and no step
\* when neither is.
C27_LegacyShapeOneStep ==
    [][\A sid \in SessionIds :
          selectSessionLoaded(sid)
          => \A r \in 1..Len(Conversations(sid)) :
                LET row == Conversations(sid)[r]
                    steps == messages'[r].steps
                IN  (row.role = "assistant" /\ (row.action.isNull \/ ~row.action.hasSteps))
                    => IF row.thinking # Absent \/ ~row.action.isNull
                       THEN /\ Len(steps) = 1
                            /\ steps[1].stepNumber = 1
                            /\ steps[1].status = "completed"
                            /\ steps[1].thinking = row.thinking
                            /\ steps[1].action = row.action.value
                       ELSE Len(steps) = 0]_vars

\* C28: the history conversion is idempotent and pure: no step writes the
\* stored rows, and whenever session 1 is selected and messages are held,
\* they are the conversion of its stored rows, the same in order, ids and
\* every field however often the session was reopened.
C28_HistoryIdempotentPure ==
    /\ [][storedRows' = storedRows]_vars
    /\ [][\A sid \in SessionIds :
             selectSessionLoaded(sid)
             => /\ messages' = ConvToMessages(Conversations(sid))
                /\ \A r \in 1..Len(messages') :
                      /\ messages'[r].id = <<"conv", Conversations(sid)[r].id>>
                      /\ messages'[r].content = Conversations(sid)[r].content
                      /\ ~messages'[r].isStreaming]_vars
    /\ [](Len(messages) > 0 => messages = ConvToMessages(storedRows))

\* C28 witness: session 1 was selected twice and both history responses
\* arrived; the messages are those of one conversion, with steps
C28_Witness ==
    /\ calls = 3
    /\ currentSession.id = 1
    /\ BagSize(loads) = 0
    /\ console = ""
    /\ Len(messages) = 2
    /\ Len(messages[2].steps) = 2
    /\ messages = ConvToMessages(storedRows)

\* C29: no frame, no completion of stopTask and no failure path changes
\* the content or the steps of a user message, of an assistant message
\* that is already closed, or of a message loaded from history: such steps
\* only ever change the one streaming assistant message.
C29_OnlyOpenMessageChanges ==
    [][(\/ \E c \in ConnIds : \/ \E f \in Frames : DeliverFrame(c, f)
                              \/ ConnectionFailure(c)
                              \/ sendTaskFailed(c)
        \/ \E k \in Controllers : stopTaskResolved(k) \/ stopTaskRejected(k))
       => /\ Len(messages') = Len(messages)
          /\ \A i \in 1..Len(messages) :
                (messages[i].role = "user" \/ ~messages[i].isStreaming)
                => /\ messages'[i].content = messages[i].content
                   /\ messages'[i].steps = messages[i].steps]_vars

\* C30: when sendTask was accepted on a session while the history request
\* of selectSession for that session was still in flight, the arrival of
\* the history keeps the user message and the streaming placeholder that
\* sendTask added.
C30_HistoryKeepsLiveTask ==
    [][\A sid \in SessionIds :
          (/\ selectSessionLoaded(sid)
           /\ currentSession.id = sid
           /\ isProcessing
           /\ Len(messages) >= 2
           /\ Last(messages).isStreaming)
          => /\ Len(messages') >= 2
             /\ Last(messages') = Last(messages)
             /\ messages'[Len(messages') - 1] = messages[Len(messages) - 1]]_vars

\* the symbols of the body that reader.read() has handed over so far
Delivered ==
    LET body == BodyText(reader.pieces)
    IN  SubSeq(body, 1, Len(body) - Len(reader.rest))

\* the handlers applied for the well-formed frames of a body, in order of
\* the body, and for no other frame
RECURSIVE ApplyValid(_, _)
ApplyValid(msgs, pieces) ==
    IF Len(pieces) = 0 THEN msgs
    ELSE ApplyValid(
             IF Head(pieces) = "thinking"
             THEN onThinking(msgs, JsonParse(<<"{full:p1}">>).value)
             ELSE IF Head(pieces) = "action"
             THEN onAction(msgs, JsonParse(<<"{action:tap}">>).value)
             ELSE msgs,
             Tail(pieces))

\* C24: no single frame aborts the stream.  Whatever frames (missing the
\* event line, missing the data line, payload not JSON, handler raising)
\* stand among the terminated frames read so far, the messages are those
\* the well-formed frames alone produce, in order, and the connection is
\* still open and the task still processing: onConnectionError has not run.
C24_MalformedFramesDropped ==
    reader.pieces # <<>> =>
        LET terminated == Len(split(Delivered, <<NL, NL>>)) - 1
        IN  /\ messages = ApplyValid(ReaderMessages, SubSeq(reader.pieces, 1, terminated))
            /\ conn[1].st = "open"
            /\ isProcessing
            /\ console # "SSE connection error"

\* a frame without data line between a thinking frame and an action frame,
\* all read: the step the first opened is completed by the second
C24_Witness ==
    /\ reader.pieces = <<"thinking", "no data line", "action">>
    /\ reader.rest = <<>>
    /\ Len(reader.log) = 2
    /\ Len(LastSteps(messages)) = 1
    /\ LastSteps(messages)[1].status = "completed"
    /\ conn[1].st = "open"

\* C25: chunk-boundary independence.  However the symbols read so far were
\* cut into chunks, the events dispatched, their order, the messages they
\* produced and the unconsumed tail are those of the same symbols arriving
\* in one chunk.
C25_ChunkingIndependent ==
    reader.pieces # <<>> =>
        LET one == Feed(<<>>, Delivered)
            r == DispatchEvents(one.events, [msgs |-> ReaderMessages, log |-> <<>>])
        IN  /\ reader.log = r.log
            /\ reader.buffer = one.buffer
            /\ messages = r.msgs

\* a body of at least two dispatched frames read to its end, one chunk of
\* which ended between the two newlines of a terminator
C25_Witness ==
    /\ reader.rest = <<>>
    /\ reader.cuts = 1
    /\ Len(reader.log) >= 2
    /\ reader.buffer = <<>>


\* C31: once every history request has been answered, the messages held
\* are the history of the session that is selected, not that of a session
\* selected before it whose response arrived late.
C31_HistoryOfCurrentSession ==
    (currentSession # NoSession /\ \A sid \in SessionIds : loads[sid] = 0)
        => messages = ConvToMessages(Conversations(currentSession.id))


\* C32: whenever a task is processing a session is selected, so that
\* stopTask can stop it.
C32_ProcessingHasSession ==
    isProcessing => currentSession # NoSession

\* C33: the stored connection handle is set only while a task is running.
C33_HandleOnlyWhileProcessing ==
    sseController # NoController => isProcessing


\* C34: a createSession whose create request rejects leaves the running
\* task untouched.  Its two steps, the call up to the await and the
\* rejection, change none of currentSession, messages, isProcessing,
\* takeover, the stored handle and the connections (the call does the same
\* whether the request later resolves or rejects).
C34_FailedCreateKeepsTask ==
    [][(createSession \/ \E a \in AgentTypes : createSessionRejected(a))
          => UNCHANGED <<currentSession, messages, isProcessing, takeover,
                         sseController, conn>>]_vars


\* C35: every streaming request is made with the agent variant of the
\* session it runs on (the default variant when the session has none).
C35_AgentOfSession ==
    [][\A c \in ConnIds :
          (conn[c].st = "unused" /\ conn'[c].st # "unused")
              => conn'[c].agentType = OrElse(currentSession.agent_type, DefaultAgent)]_vars


C37_ClosedMessageHasNoOpenStep ==
    \A i \in 1..Len(messages) :
        (messages[i].role = "assistant" /\ ~messages[i].isStreaming)
            => \A j \in 1..Len(messages[i].steps) :
                   messages[i].steps[j].status # "thinking"


\* C38: the thinking text a thinking frame writes (into the step it opens
\* or into the open step) is payload.full whenever full is present, the
\* empty string included, and payload.chunk only when full is absent; a
\* step it opens is numbered by the step count before it plus 1 and has
\* status thinking.
C38_FullBeforeChunk ==
    [][\A f \in StreamThinkingFrames :
          (StreamFrame(f) /\ Len(messages') > 0 /\ Len(LastSteps(messages')) > 0)
              => LET steps == LastSteps(messages)
                     written == Last(LastSteps(messages'))
                 IN  /\ written.thinking =
                            IF f.full # Absent THEN f.full
                            ELSE IF f.chunk # Absent THEN f.chunk ELSE ""
                     /\ written.status = "thinking"
                     /\ Len(LastSteps(messages')) > Len(steps)
                            => written.stepNumber = Len(steps) + 1]_vars


\* C39: a takeover frame sets the takeover request active with the message
\* it carries and changes nothing else: messages and their steps,
\* isProcessing, the stored handle and the state of the connection are as
\* before.
C39_TakeoverFrameOnlySetsTakeover ==
    [][\A c \in ConnIds, f \in TakeoverFrames :
          DeliverFrame(c, f)
              => /\ takeover' = [isActive |-> TRUE, message |-> f.message]
                 /\ conn'[c].st = conn[c].st
                 /\ UNCHANGED <<messages, isProcessing, sseController, currentSession,
                                screenshot, sessions, selectedAgentType,
                                isCreatingSession>>]_vars

\* the task is running, its placeholder open and its handle stored, and
\* the takeover request is active with the message of the frame
C39_Witness ==
    /\ takeover = [isActive |-> TRUE, message |-> "please login"]
    /\ isProcessing
    /\ sseController # NoController
    /\ conn[sseController].st = "open"
    /\ conn[sseController].nframes >= 1
    /\ Len(messages) > 0
    /\ Last(messages).isStreaming


\* C40: stopTask called while no task is processing is a no-op: no stop
\* request is sent, no connection is aborted and no message changes.
C40_StopWhenIdleIsNoOp ==
    [][(~isProcessing /\ stopTask)
          => UNCHANGED <<storeVars, envVars>>]_vars

\* stopTask was called, and refused, after the task's message was closed:
\* the content the terminal frame wrote is still there
C40_Witness ==
    /\ console = WarnNotProcessing
    /\ ~isProcessing
    /\ Len(messages) > 0
    /\ Last(messages).role = "assistant"
    /\ ~Last(messages).isStreaming
    /\ Last(messages).content = "done"
    /\ stops = [k \in Controllers |-> 0]


====
